---- MODULE Spec2Model ----
(***************************************************************************)
(* PolicyRAGTool (src/langflow/adk_policy_tool.py): one synchronous        *)
(* execute() invocation builds a request payload, posts it to the          *)
(* Retriever, and turns the reply into an AnswerResult: the formatted      *)
(* success variant, or the error variant built by the except clause.       *)
(*                                                                         *)
(* Conventions.  A Python dict is a function whose DOMAIN is its key set,  *)
(* so dict.get(k, default) is Get.  A Python list is a sequence (index i   *)
(* of the source is index i+1 here).  Strings that the code slices,        *)
(* measures or concatenates (content, section_number, section_title,       *)
(* citation, summary) are sequences of one-character strings; strings the  *)
(* code only passes along (query, section_filter, messages) are atoms.     *)
(* An Optional value is None or Some(v).  A computation that may raise is  *)
(* Raise(exception) or Return(value).  Similarity scores are counted in    *)
(* hundredths, and a quotient is kept exact as numerator and denominator.  *)
(***************************************************************************)
EXTENDS Integers, Sequences, FiniteSets, TLC

VARIABLES pc, query, section_filter, top_k, payload, posts, reply, result

vars == <<pc, query, section_filter, top_k, payload, posts, reply, result>>

(* ------------------------------ bounds -------------------------------- *)

\* longest chunk list the Retriever returns in the model
MaxChunks ==
  2

\* longest metadata list the Retriever returns in the model
MaxMeta ==
  2

(* ------------------------- program constants -------------------------- *)

\* def execute(..., top_k: int = 3)
DefaultTopK ==
  3

\* len(top_section['content']) > 500
TruncateThreshold ==
  500

\* top_section['content'][:500]
TruncateLen ==
  500

(* -------------------------- Python primitives ------------------------- *)

None == [some |-> FALSE]

Some(v) == [some |-> TRUE, val |-> v]

Raise(e) == [raised |-> TRUE, exc |-> e]

Return(v) == [raised |-> FALSE, val |-> v]

EmptyDict == [k \in {} |-> k]

\* dict.get(k, default)
Get(d, k, default) == IF k \in DOMAIN d THEN d[k] ELSE default

\* s[:n]
Prefix(s, n) == SubSeq(s, 1, IF Len(s) < n THEN Len(s) ELSE n)

RECURSIVE Sum(_)
\* sum(list)
Sum(s) == IF s = <<>> THEN 0 ELSE Head(s) + Sum(Tail(s))

\* a / b on numbers
Divide(a, b) ==
  IF b = 0 THEN Raise("ZeroDivisionError") ELSE Return([num |-> a, den |-> b])

\* the literal 0
Zero == [num |-> 0, den |-> 1]

(* --------------------------- string literals -------------------------- *)

\* "Unknown"
Unknown == <<"U","n","k","n","o","w","n">>

\* "Section "
SectionPrefix == <<"S","e","c","t","i","o","n"," ">>

\* "Based on "
BasedOn == <<"B","a","s","e","d"," ","o","n"," ">>

\* "Based on Section "
BasedOnSection == <<"B","a","s","e","d"," ","o","n"," ","S","e","c","t","i","o","n"," ">>

\* "No relevant policy sections found for this query."
NoSectionsSummary == <<"N","o"," ","r","e","l","e","v","a","n","t"," ","p","o","l","i","c","y"," ","s","e","c","t","i","o","n","s"," ","f","o","u","n","d"," ","f","o","r"," ","t","h","i","s"," ","q","u","e","r","y",".">>

SourceLabel == "ACME Corp Procurement Policy v2.1"

Fallback == "Unable to retrieve policy information dynamically. Please consult the policy document directly or contact procurement@acme.corp for assistance."

(* ------------------------- QueryRequestBuilder ------------------------ *)

\* bool(section_filter): None and "" are both falsy
Truthy(opt) == opt.some /\ opt.val # ""

\* a mutant of BuildPayload: the filter is sent whenever the argument is not None
BuildPayloadIfNotNone(q, sf, k) ==
  [input_value |-> q, output_type |-> "chat", input_type |-> "chat",
   tweaks |-> [Retriever |->
     IF sf.some
     THEN [top_k |-> k, filter |-> [section_number |-> ("$eq" :> sf.val)]]
     ELSE [top_k |-> k]]]

\* a mutant of BuildPayload: a falsy top_k falls back to the default
BuildPayloadTopKOrDefault(q, sf, k) ==
  [input_value |-> q, output_type |-> "chat", input_type |-> "chat",
   tweaks |-> [Retriever |->
     IF Truthy(sf)
     THEN [top_k |-> IF k = 0 THEN DefaultTopK ELSE k,
           filter |-> [section_number |-> ("$eq" :> sf.val)]]
     ELSE [top_k |-> IF k = 0 THEN DefaultTopK ELSE k]]]

\* _call_langflow_rag, the payload: sf is None or Some(string), k an integer
BuildPayload(q, sf, k) ==
  LET base == [input_value |-> q, output_type |-> "chat", input_type |-> "chat",
               tweaks |-> [Retriever |-> [top_k |-> k]]]
  IN IF Truthy(sf)
     THEN [base EXCEPT !.tweaks.Retriever =
             [top_k |-> k, filter |-> [section_number |-> ("$eq" :> sf.val)]]]
     ELSE base

\* the value execute binds to top_k: the argument, or the default when omitted
BoundTopK(k) == IF k.some THEN k.val ELSE DefaultTopK

\* _call_langflow_rag, after requests.post: the reply or the fault it raises
ReceiveResponse(r) ==
  IF r.kind = "ConnectionError" THEN Raise("ConnectionError")
  ELSE IF r.kind = "Timeout" THEN Raise("Timeout")
  ELSE IF r.status >= 400 /\ r.status < 600 THEN Raise("HTTPError")
  ELSE IF ~r.json.some THEN Raise("JSONDecodeError")
  ELSE Return(r.json.val)

(* --------------------------- ResultFormatter -------------------------- *)

\* _format_response, the extraction of the result dict from the raw response
ExtractResult(raw) ==
  LET outputs == Get(raw, "outputs", <<EmptyDict>>)
  IN IF outputs # <<>>
     THEN LET inner == Get(outputs[1], "outputs", <<EmptyDict>>)
          IN IF inner = <<>> THEN Raise("IndexError") ELSE Return(inner[1])
     ELSE Return(EmptyDict)

\* a mutant of SectionInfo: every section reads the first metadata entry
SectionInfoFirstMeta(chunk, metadata, i) ==
  IF metadata = <<>>
  THEN Raise("IndexError")
  ELSE Return([content |-> Get(chunk, "text", <<>>),
               section_number |-> Get(metadata[1], "section_number", Unknown),
               section_title |-> Get(metadata[1], "section_title", <<>>),
               page_number |-> Get(metadata[1], "page_number", 0)])

\* _format_response, the section_info dict of chunk i; metadata[i] raises
\* IndexError past the end of the metadata list
SectionInfo(chunk, metadata, i) ==
  IF i > Len(metadata)
  THEN Raise("IndexError")
  ELSE Return([content |-> Get(chunk, "text", <<>>),
               section_number |-> Get(metadata[i], "section_number", Unknown),
               section_title |-> Get(metadata[i], "section_title", <<>>),
               page_number |-> Get(metadata[i], "page_number", 0)])

\* a mutant of Citation: the parenthesised title is appended even when empty
CitationAlwaysTitle(section_info) ==
  SectionPrefix \o section_info.section_number
    \o <<" ", "(">> \o section_info.section_title \o <<")">>

\* _format_response, the citation of one section
Citation(section_info) ==
  LET citation == SectionPrefix \o section_info.section_number
  IN IF section_info.section_title # <<>>
     THEN citation \o <<" ", "(">> \o section_info.section_title \o <<")">>
     ELSE citation

RECURSIVE FormatLoop(_, _, _, _)
\* _format_response, the loop over enumerate(chunks) from index i on
FormatLoop(chunks, metadata, i, acc) ==
  IF i > Len(chunks)
  THEN Return(acc)
  ELSE LET section_info == SectionInfo(chunks[i], metadata, i)
       IN IF section_info.raised
          THEN section_info
          ELSE FormatLoop(chunks, metadata, i + 1,
                 [relevant_sections |-> Append(acc.relevant_sections, section_info.val),
                  citations |-> Append(acc.citations, Citation(section_info.val)),
                  confidence_scores |-> Append(acc.confidence_scores,
                                              Get(chunks[i], "similarity_score", 0))])

\* a mutant of GenerateSummary: content of exactly the threshold length is truncated
GenerateSummaryInclusive(sections, q) ==
  IF sections = <<>>
  THEN NoSectionsSummary
  ELSE LET top_section == sections[1]
       IN IF Len(top_section.content) >= TruncateThreshold
          THEN BasedOn \o top_section.section_number \o <<":", " ">>
                 \o Prefix(top_section.content, TruncateLen) \o <<".", ".", ".">>
          ELSE BasedOnSection \o top_section.section_number \o <<":", " ">>
                 \o top_section.content

\* _generate_summary
GenerateSummary(sections, q) ==
  IF sections = <<>>
  THEN NoSectionsSummary
  ELSE LET top_section == sections[1]
       IN IF Len(top_section.content) > TruncateThreshold
          THEN BasedOn \o top_section.section_number \o <<":", " ">>
                 \o Prefix(top_section.content, TruncateLen) \o <<".", ".", ".">>
          ELSE BasedOnSection \o top_section.section_number \o <<":", " ">>
                 \o top_section.content

\* a mutant of Average: the mean is taken without the emptiness guard
AverageUnguarded(confidence_scores) ==
  Divide(Sum(confidence_scores), Len(confidence_scores))

\* _format_response, confidence.average
Average(confidence_scores) ==
  IF confidence_scores # <<>>
  THEN Divide(Sum(confidence_scores), Len(confidence_scores))
  ELSE Return(Zero)

\* _format_response
FormatResponse(raw_response, original_query) ==
  LET extracted == ExtractResult(raw_response)
  IN IF extracted.raised
     THEN extracted
     ELSE LET chunks == Get(extracted.val, "chunks", <<>>)
              metadata == Get(extracted.val, "metadata", <<>>)
              built == FormatLoop(chunks, metadata, 1,
                         [relevant_sections |-> <<>>, citations |-> <<>>,
                          confidence_scores |-> <<>>])
          IN IF built.raised
             THEN built
             ELSE LET summary == GenerateSummary(built.val.relevant_sections,
                                                 original_query)
                      average == Average(built.val.confidence_scores)
                  IN IF average.raised
                     THEN average
                     ELSE Return([query |-> original_query,
                                  relevant_sections |-> built.val.relevant_sections,
                                  citations |-> built.val.citations,
                                  confidence |-> [scores |-> built.val.confidence_scores,
                                                  average |-> average.val],
                                  summary |-> summary,
                                  source |-> SourceLabel])

\* _handle_error
HandleError(error, q) ==
  [query |-> q, error |-> TRUE, error_message |-> error, fallback |-> Fallback,
   relevant_sections |-> <<>>, citations |-> <<>>]

\* a mutant of ExceptClause: a timeout is answered by calling the Retriever again
ExceptClauseRetryTimeout(error, q) ==
  [again |-> error = "Timeout", value |-> HandleError(error, q)]

\* execute, the except clause: the fault becomes the returned value, and the
\* Retriever is not called again
ExceptClause(error, q) ==
  [again |-> FALSE, value |-> HandleError(error, q)]

\* execute, from the Retriever's reply to the returned value
ExecuteBody(r, q) ==
  LET response == ReceiveResponse(r)
  IN IF response.raised
     THEN ExceptClause(response.exc, q)
     ELSE LET formatted == FormatResponse(response.val, q)
          IN IF formatted.raised
             THEN ExceptClause(formatted.exc, q)
             ELSE [again |-> FALSE, value |-> formatted.val]

(* ------------------------ inputs of the model ------------------------- *)

\* "3.2"
Sec32 == <<"3",".","2">>

\* "4.1"
Sec41 == <<"4",".","1">>

\* "Equipment Tiers"
TitleTiers == <<"E","q","u","i","p","m","e","n","t"," ","T","i","e","r","s">>

\* a text of n characters
Text(n) == [i \in 1..n |-> IF i % 2 = 1 THEN "a" ELSE "b"]

SeqsUpTo(S, n) == UNION {[1..k -> S] : k \in 0..n}

Queries == {"gaming equipment?", "equipment limit for interns"}

SectionFilters == {None, Some(""), Some("3.2")}

TopKs == {None, Some(-1), Some(0), Some(5)}

\* chunk records {text?, similarity_score?}
Chunks ==
  {EmptyDict,
   [text |-> Text(500), similarity_score |-> 90],
   [text |-> Text(501), similarity_score |-> 40]}

\* metadata records {section_number?, section_title?, page_number?}
MetaEntries ==
  {EmptyDict,
   [section_number |-> Sec32, section_title |-> TitleTiers, page_number |-> 12],
   [section_number |-> Sec41, section_title |-> <<>>]}

ChunkLists == SeqsUpTo(Chunks, MaxChunks)

MetaLists == SeqsUpTo(MetaEntries, MaxMeta)

\* the innermost dict of a reply: {chunks?, metadata?}
ResultDicts ==
  {EmptyDict}
    \cup {[chunks |-> c] : c \in ChunkLists}
    \cup {[metadata |-> m] : m \in MetaLists}
    \cup {[chunks |-> c, metadata |-> m] : c \in ChunkLists, m \in MetaLists}

\* parsed reply bodies: well nested ones, and ones missing a level of nesting
RawResponses ==
  {EmptyDict, [outputs |-> <<>>], [outputs |-> <<EmptyDict>>],
   [outputs |-> <<[outputs |-> <<>>]>>]}
    \cup {[outputs |-> <<[outputs |-> <<r>>]>>] : r \in ResultDicts}

\* what requests.post can come back with
Replies ==
  {[kind |-> "ConnectionError"], [kind |-> "Timeout"]}
    \cup {[kind |-> "response", status |-> s, json |-> None] : s \in {200, 404, 500}}
    \cup {[kind |-> "response", status |-> 503, json |-> Some(EmptyDict)]}
    \cup {[kind |-> "response", status |-> 200, json |-> Some(raw)] : raw \in RawResponses}

NoReply == [kind |-> "none"]

NoResult == [returned |-> FALSE]

(* --------------------------- the state machine ------------------------ *)

Init ==
  /\ pc = "idle"
  /\ query = ""
  /\ section_filter = None
  /\ top_k = None
  /\ payload = EmptyDict
  /\ posts = 0
  /\ reply = NoReply
  /\ result = NoResult

\* execute(q, sf, k) up to requests.post: the payload is built and sent
ExecuteCall(q, sf, k) ==
  /\ pc = "idle"
  /\ query' = q
  /\ section_filter' = sf
  /\ top_k' = k
  /\ payload' = BuildPayload(q, sf, BoundTopK(k))
  /\ posts' = 1
  /\ reply' = NoReply
  /\ result' = NoResult
  /\ pc' = "waiting"

\* the Retriever answers the request, fails, or the 30 s timeout expires
RetrieverReply(r) ==
  /\ pc = "waiting"
  /\ reply' = r
  /\ pc' = "replied"
  /\ UNCHANGED <<query, section_filter, top_k, payload, posts, result>>

\* execute from the return of requests.post to its own return
ExecuteReturn ==
  /\ pc = "replied"
  /\ LET out == ExecuteBody(reply, query)
     IN IF out.again
        THEN /\ posts' = posts + 1
             /\ pc' = "waiting"
             /\ result' = result
        ELSE /\ posts' = posts
             /\ pc' = "done"
             /\ result' = out.value
  /\ UNCHANGED <<query, section_filter, top_k, payload, reply>>

\* the caller takes the returned value; nothing of the invocation is kept
Discard ==
  /\ pc = "done"
  /\ pc' = "idle"
  /\ query' = ""
  /\ section_filter' = None
  /\ top_k' = None
  /\ payload' = EmptyDict
  /\ posts' = 0
  /\ reply' = NoReply
  /\ result' = NoResult

Next ==
  \/ \E q \in Queries, sf \in SectionFilters, k \in TopKs : ExecuteCall(q, sf, k)
  \/ \E r \in Replies : RetrieverReply(r)
  \/ ExecuteReturn
  \/ Discard

Spec == Init /\ [][Next]_vars

(* ----------------------- vocabulary of the properties ----------------- *)

SuccessKeys == {"query", "relevant_sections", "citations", "confidence", "summary", "source"}

ErrorKeys == {"query", "error", "error_message", "fallback", "relevant_sections", "citations"}

IsSuccess(r) == DOMAIN r = SuccessKeys

IsError(r) ==
  /\ DOMAIN r = ErrorKeys
  /\ r.error = TRUE
  /\ r.fallback # ""
  /\ r.relevant_sections = <<>>
  /\ r.citations = <<>>

\* the invocation has returned
Returned == pc = "done"

\* the Retriever's reply is a connection error, a timeout, a non-success status
\* or a body that does not parse
RetrievalFailed ==
  \/ reply.kind \in {"ConnectionError", "Timeout"}
  \/ /\ reply.kind = "response"
     /\ (reply.status \notin 200..399 \/ ~reply.json.some)

\* the parsed body of a reply that did not fail
Raw == reply.json.val

\* the body carries outputs[0].outputs[0]
WellNested(raw) ==
  /\ "outputs" \in DOMAIN raw
  /\ raw.outputs # <<>>
  /\ "outputs" \in DOMAIN raw.outputs[1]
  /\ raw.outputs[1].outputs # <<>>

Inner(raw) == raw.outputs[1].outputs[1]

\* the inner outputs list is present and empty
EmptyInner(raw) ==
  /\ "outputs" \in DOMAIN raw
  /\ raw.outputs # <<>>
  /\ "outputs" \in DOMAIN raw.outputs[1]
  /\ raw.outputs[1].outputs = <<>>

\* the chunk list and the metadata list a body carries (empty when it carries none)
ChunkList(raw) ==
  IF WellNested(raw) /\ "chunks" \in DOMAIN Inner(raw) THEN Inner(raw).chunks ELSE <<>>

MetaList(raw) ==
  IF WellNested(raw) /\ "metadata" \in DOMAIN Inner(raw) THEN Inner(raw).metadata ELSE <<>>

\* "Section Unknown"
SectionUnknown == <<"S","e","c","t","i","o","n"," ","U","n","k","n","o","w","n">>

\* "Section 3.2 (Equipment Tiers)"
CitationTiers == <<"S","e","c","t","i","o","n"," ","3",".","2"," ","(","E","q","u","i","p","m","e","n","t"," ","T","i","e","r","s",")">>

\* "Section 4.1"
Citation41 == <<"S","e","c","t","i","o","n"," ","4",".","1">>

\* the filter of the payload sent, when it has one
HasFilter == "filter" \in DOMAIN payload.tweaks.Retriever

EqFilter(v) == [section_number |-> ("$eq" :> v)]

Called == pc \in {"waiting", "replied", "done"}

(* ------------------------------ C1 ------------------------------------ *)

\* C1 (as claimed): a returned execute gives the error variant exactly when the
\* retrieval call failed, and the success variant, without an error key, otherwise.
C1_VariantFollowsRetrieval ==
  Returned =>
    IF RetrievalFailed
    THEN IsError(result)
    ELSE IsSuccess(result) /\ "error" \notin DOMAIN result

(* ------------------------------ C2 ------------------------------------ *)

\* C2 (as claimed): when chunk i has no metadata entry, or an entry lacking a
\* field, the result is the success variant and section i carries the defaults
\* "Unknown", "" and 0 for what is missing, with citation "Section Unknown" when
\* the whole entry is missing.
C2_MissingMetadataDefaults ==
  (Returned /\ ~RetrievalFailed /\ WellNested(Raw)) =>
    \A i \in 1..Len(ChunkList(Raw)) :
      LET entry == IF i <= Len(MetaList(Raw)) THEN MetaList(Raw)[i] ELSE EmptyDict
      IN (DOMAIN entry # {"section_number", "section_title", "page_number"}) =>
           /\ IsSuccess(result)
           /\ Len(result.relevant_sections) >= i
           /\ ("section_number" \notin DOMAIN entry =>
                 result.relevant_sections[i].section_number = Unknown)
           /\ ("section_title" \notin DOMAIN entry =>
                 result.relevant_sections[i].section_title = <<>>)
           /\ ("page_number" \notin DOMAIN entry =>
                 result.relevant_sections[i].page_number = 0)
           /\ (i > Len(MetaList(Raw)) => result.citations[i] = SectionUnknown)

(* ------------------------------ C3 ------------------------------------ *)

\* the body misses a level of nesting, or its inner dict misses "chunks", or it
\* misses "metadata" and holds no chunk (a missing metadata list beside chunks
\* is the case of C2)
Malformed(raw) ==
  \/ ~WellNested(raw)
  \/ "chunks" \notin DOMAIN Inner(raw)
  \/ "metadata" \notin DOMAIN Inner(raw) /\ Inner(raw).chunks = <<>>

\* C3 (as claimed): on every structurally malformed body _format_response does
\* not raise, and the result is a success variant with no sections and no citations.
C3_MalformedBodyFormatsEmpty ==
  (Returned /\ ~RetrievalFailed /\ Malformed(Raw)) =>
    /\ ~FormatResponse(Raw, query).raised
    /\ IsSuccess(result)
    /\ result.relevant_sections = <<>>
    /\ result.citations = <<>>

(* ------------------------------ C4 ------------------------------------ *)

\* C4: for a chunk list of length N with a metadata list of the same length, the
\* sections, citations and scores of the result each have length N, and element i
\* of each comes from chunk i and metadata i, in the order received.
C4_OrderAndLengthPreserved ==
  (Returned /\ ~RetrievalFailed /\ WellNested(Raw)
     /\ Len(ChunkList(Raw)) = Len(MetaList(Raw))) =>
    LET chunks == ChunkList(Raw)
        metadata == MetaList(Raw)
        N == Len(chunks)
    IN /\ IsSuccess(result)
       /\ Len(result.relevant_sections) = N
       /\ Len(result.citations) = N
       /\ Len(result.confidence.scores) = N
       /\ \A i \in 1..N :
            /\ result.relevant_sections[i].content = Get(chunks[i], "text", <<>>)
            /\ result.relevant_sections[i].section_number =
                 Get(metadata[i], "section_number", Unknown)
            /\ result.relevant_sections[i].section_title =
                 Get(metadata[i], "section_title", <<>>)
            /\ result.relevant_sections[i].page_number =
                 Get(metadata[i], "page_number", 0)
            /\ result.confidence.scores[i] = Get(chunks[i], "similarity_score", 0)
            /\ SubSeq(result.citations[i], 9, Len(result.citations[i])) =
                 Get(metadata[i], "section_number", Unknown)
                   \o (IF Get(metadata[i], "section_title", <<>>) = <<>>
                       THEN <<>>
                       ELSE <<" ", "(">> \o metadata[i].section_title \o <<")">>)

\* two different chunks with two different metadata entries were formatted
C4_Witness ==
  /\ Returned /\ ~RetrievalFailed /\ WellNested(Raw)
  /\ Len(ChunkList(Raw)) = 2 /\ Len(MetaList(Raw)) = 2
  /\ ChunkList(Raw)[1] # ChunkList(Raw)[2]
  /\ MetaList(Raw)[1] # MetaList(Raw)[2]
  /\ IsSuccess(result)
  /\ Len(result.relevant_sections) = 2

(* ------------------------------ C5 ------------------------------------ *)

\* C5 (as claimed): the payload sent has a filter key if and only if a
\* section_filter value was supplied, and then the filter is {section_number: {$eq: v}}.
C5_FilterIffSupplied ==
  Called =>
    /\ HasFilter <=> section_filter.some
    /\ section_filter.some =>
         HasFilter /\ payload.tweaks.Retriever.filter = EqFilter(section_filter.val)

\* C5 (amended): the payload sent has a filter key if and only if a non-empty
\* section_filter value was supplied, and then the filter is
\* {section_number: {$eq: v}}; with none, or the empty string, the key is omitted.
C5_FilterIffNonEmpty ==
  Called =>
    /\ HasFilter <=> (section_filter.some /\ section_filter.val # "")
    /\ DOMAIN payload.tweaks.Retriever \subseteq {"top_k", "filter"}
    /\ HasFilter =>
         payload.tweaks.Retriever.filter = EqFilter(section_filter.val)

\* a request was sent with section_filter "3.2"
C5_Witness ==
  /\ pc = "waiting"
  /\ section_filter = Some("3.2")
  /\ HasFilter
  /\ payload.tweaks.Retriever.filter.section_number["$eq"] = "3.2"

(* ------------------------------ C6 ------------------------------------ *)

\* C6 (as claimed): the payload sent carries the query verbatim, the caller's top_k
\* unchanged (3 when omitted), and any supplied section_filter value unchanged.
C6_PassThroughAnyFilter ==
  Called =>
    /\ payload.input_value = query
    /\ payload.tweaks.Retriever.top_k = (IF top_k.some THEN top_k.val ELSE 3)
    /\ section_filter.some =>
         /\ HasFilter
         /\ payload.tweaks.Retriever.filter.section_number["$eq"] = section_filter.val

\* C6 (amended): the payload sent carries the query verbatim, the caller's top_k
\* unchanged for every integer (3 when omitted), and any non-empty section_filter
\* value unchanged; an empty-string section_filter is not sent at all.
C6_PassThroughNonEmptyFilter ==
  Called =>
    /\ payload.input_value = query
    /\ payload.tweaks.Retriever.top_k = (IF top_k.some THEN top_k.val ELSE 3)
    /\ (section_filter.some /\ section_filter.val # "") =>
         /\ HasFilter
         /\ payload.tweaks.Retriever.filter.section_number["$eq"] = section_filter.val
    /\ (section_filter.some /\ section_filter.val = "") => ~HasFilter

\* a request was sent with a negative top_k and an empty section_filter
C6_Witness ==
  /\ pc = "waiting"
  /\ top_k = Some(-1)
  /\ payload.tweaks.Retriever.top_k = -1
  /\ section_filter = Some("")
  /\ ~HasFilter

(* ------------------------------ C7 ------------------------------------ *)

\* C7: with at least one section, the summary is made from the first section
\* alone: "Based on {section_number}: " + the first 500 characters + "..." when
\* its content is longer than 500 characters, and "Based on Section
\* {section_number}: " + the whole content when it has 500 characters or fewer.
C7_SummaryFromFirstSection ==
  (Returned /\ IsSuccess(result) /\ result.relevant_sections # <<>>) =>
    LET first == result.relevant_sections[1]
        n == Len(first.content)
    IN /\ n > 500 =>
            /\ result.summary = BasedOn \o first.section_number \o <<":", " ">>
                                  \o SubSeq(first.content, 1, 500) \o <<".", ".", ".">>
            /\ Len(result.summary) = 9 + Len(first.section_number) + 2 + 500 + 3
       /\ n <= 500 =>
            /\ result.summary = BasedOnSection \o first.section_number \o <<":", " ">>
                                  \o first.content
            /\ Len(result.summary) = 17 + Len(first.section_number) + 2 + n

\* a first section of 501 characters, ahead of a second one, was summarised
C7_Witness ==
  /\ Returned /\ IsSuccess(result)
  /\ Len(result.relevant_sections) = 2
  /\ Len(result.relevant_sections[1].content) = 501
  /\ Len(result.relevant_sections[2].content) = 500
  /\ SubSeq(result.summary, Len(result.summary) - 2, Len(result.summary)) = <<".", ".", ".">>

(* ------------------------------ C8 ------------------------------------ *)

\* C8: when the reply yields an empty chunk list, the result is the success
\* variant with the fixed no-sections summary, no scores and average 0; the
\* average is computed without a division fault.
C8_EmptyChunkList ==
  (Returned /\ ~RetrievalFailed /\ ~EmptyInner(Raw) /\ ChunkList(Raw) = <<>>) =>
    /\ IsSuccess(result)
    /\ result.summary = NoSectionsSummary
    /\ result.relevant_sections = <<>>
    /\ result.confidence.scores = <<>>
    /\ result.confidence.average = Zero

\* a reply with an explicit empty chunk list beside metadata was formatted
C8_Witness ==
  /\ Returned /\ ~RetrievalFailed /\ WellNested(Raw)
  /\ "chunks" \in DOMAIN Inner(Raw)
  /\ Inner(Raw).chunks = <<>>
  /\ MetaList(Raw) # <<>>
  /\ IsSuccess(result)
  /\ result.confidence.average = Zero

(* ------------------------------ C9 ------------------------------------ *)

C10_AtMostOneRetrieval ==
  /\ posts <= 1
  /\ Called => posts = 1
  /\ (Returned /\ RetrievalFailed) => IsError(result)

\* an invocation whose only post timed out has returned the error variant
C10_Witness ==
  /\ Returned
  /\ reply.kind = "Timeout"
  /\ posts = 1
  /\ IsError(result)

====
